---- MODULE Spec2Model ----
(***************************************************************************)
(* Model of joy_base_control's teleop node (src/src/teleop_twist_joy.cpp). *)
(*                                                                         *)
(* The node subscribes to "joy" with a subscription queue of one frame,    *)
(* and for every frame its single callback thread runs joyCallback, which  *)
(* publishes one Twist on "cmd_base_vel".  A frame that asks for a scale   *)
(* change makes the callback sleep reaction_t inside ModifyVelocity before *)
(* it publishes.                                                           *)
(*                                                                         *)
(* Numbers.  float/double values are modelled as exact rationals <<n, d>>  *)
(* in lowest terms with d > 0.  std::min and std::max return one of their  *)
(* arguments and the float<->double conversions of a clamped bound are     *)
(* exact, so the order relations the code computes are the ones computed   *)
(* here; float rounding of scale*1.2 and scale/1.2 is not modelled.        *)
(* Buttons are int32 in the message; only their truth value is used by the *)
(* code, so a button is modelled as a BOOLEAN.                             *)
(* Time is counted in ticks of 0.1 s.                                      *)
(***************************************************************************)
EXTENDS Integers, Sequences, FiniteSets, TLC

\* ------------------------------------------------------------- bounds
\* longest buttons array of a frame
MaxButtons == 3
\* longest axes array of a frame
MaxAxes == 3

\* ---------------------------------------------------------- rationals
Abs(i) == IF i < 0 THEN -i ELSE i

RECURSIVE GCD(_, _)
GCD(a, b) == IF b = 0 THEN a ELSE GCD(b, a % b)

\* the rational n/d in lowest terms, d > 0
Rat(n, d) ==
    LET s == IF d < 0 THEN -1 ELSE 1
        g == GCD(Abs(n), Abs(d))
    IN  <<(s * n) \div g, (s * d) \div g>>

RMul(a, b) == Rat(a[1] * b[1], a[2] * b[2])
RDiv(a, b) == Rat(a[1] * b[2], a[2] * b[1])
RLess(a, b) == a[1] * b[2] < b[1] * a[2]
RLeq(a, b) == a[1] * b[2] <= b[1] * a[2]
RZero == <<0, 1>>

\* std::min(a, b): b when b < a, else a
StdMin(a, b) == IF RLess(b, a) THEN b ELSE a
\* std::max(a, b): b when a < b, else a
StdMax(a, b) == IF RLess(a, b) THEN b ELSE a

\* ---------------------------------------------------- program constants
\* float min_vel = 0.1
min_vel == <<1, 10>>
\* pimpl_->mov_vel = 0.5
InitialScale == <<1, 2>>
\* the literal 1.2 of ModifyVelocity
ScaleFactor == <<6, 5>>
\* float reaction_t = 0.5 (seconds), in ticks of 0.1 s
reaction_t == 5
\* geometry_msgs::Twist as constructed: all components 0.0
ZeroTwist == [x |-> RZero, y |-> RZero, z |-> RZero]
\* no Twist published yet
NoTwist == [x |-> <<0, 0>>, y |-> <<0, 0>>, z |-> <<0, 0>>]

\* ------------------------------------------------------------- inputs
\* axis readings of a joystick are floats in [-1, 1]; the frames carry
\* the stick position (0.5, -0.5, 1.0, 0.5, -0.5, ...), cut to any length
\* up to MaxAxes
AxisAt(i) ==
    CASE i % 3 = 1 -> <<1, 2>>
      [] i % 3 = 2 -> <<-1, 2>>
      [] OTHER -> <<1, 1>>
ButtonSeqs == UNION {[1..n -> BOOLEAN] : n \in 0..MaxButtons}
AxesSeqs == {[i \in 1..n |-> AxisAt(i)] : n \in 0..MaxAxes}
\* sensor_msgs::Joy: axes and buttons, of any length
Frames == [buttons : ButtonSeqs, axes : AxesSeqs]

\* configurations the constructor reads from the parameter server.  A
\* max_displacement_in_a_second that is not set leaves max_vel as
\* allocated, which is some float as well.
\* <<enable_mov, increment_velocity, decrement_velocity>>: all three
\* assigned, the defaults (0, -1, -1), the increment button alone left at
\* -1, the enable button set to -1
ButtonConfigs == <<<<0, 1, 2>>, <<0, -1, -1>>, <<0, -1, 2>>, <<-1, 1, 2>>>>
\* max_displacement_in_a_second: above the initial scale, between min_vel
\* and the initial scale, below min_vel
MaxVelChoices == <<<<3, 5>>, <<3, 10>>, <<1, 20>>>>
\* the second map leaves "y" out and gives "x" an index no array has
PositionMaps == <<[x |-> 0, y |-> 1], [x |-> -1]>>
OrientationMaps == <<[z |-> 2]>>

VARIABLES
    enable_mov,            \* int enable_mov
    increment_vel,         \* int increment_vel
    decrement_vel,         \* int decrement_vel
    max_vel,               \* float max_vel
    axis_position_map,     \* std::map<std::string,int>
    axis_orientation_map,  \* std::map<std::string,int>
    mov_vel,               \* float mov_vel: the velocity scale
    cmd_vel_msg,           \* geometry_msgs::Twist cmd_vel_msg
    pc,                    \* callback thread: "idle", "sleeping" (in ModifyVelocity), "crashed"
    sleepLeft,             \* ticks left of ros::Duration(reaction_t).sleep()
    queue,                 \* frames waiting in the subscription queue (capacity 1)
    early,                 \* the waiting frame arrived while the callback thread was asleep
    lost,                  \* a frame was pushed out of the subscription queue during the current sleep
    lastPub,               \* the Twist last handed to cmd_vel_pub.publish, NoTwist before the first
    nPub,                  \* publish calls made by the callback run started last
    branch,                \* branch the callback run started last took: "none", "stop", "motion", "scale"
    sinceAdj,              \* ticks since ModifyVelocity last assigned scale (-1: never), capped at reaction_t
    frameScaling           \* the frame of that run had the enable button and an adjustment button pressed

config == <<enable_mov, increment_vel, decrement_vel, max_vel,
            axis_position_map, axis_orientation_map>>
vars == <<enable_mov, increment_vel, decrement_vel, max_vel,
          axis_position_map, axis_orientation_map, mov_vel, cmd_vel_msg,
          pc, sleepLeft, queue, early, lost, lastPub, nPub, branch,
          sinceAdj, frameScaling>>

\* ----------------------------------------------------------- getVal
\* size_t <= int compares as unsigned: a negative int converts to a value
\* above every size, so size <= idx holds for every negative idx
SizeLeqInt(size, idx) == idx < 0 \/ size <= idx

\* getVal with axis_map[fieldname] in place of find/at: a name the map
\* lacks reads as index 0
getValDefaultIndex(joy_msg, axis_map, fieldname) ==
    LET idx == IF fieldname \in DOMAIN axis_map THEN axis_map[fieldname] ELSE 0
    IN  IF SizeLeqInt(Len(joy_msg.axes), idx)
        THEN RZero
        ELSE joy_msg.axes[idx + 1]

getVal(joy_msg, axis_map, fieldname) ==
    IF fieldname \notin DOMAIN axis_map
       \/ SizeLeqInt(Len(joy_msg.axes), axis_map[fieldname])
    THEN RZero
    ELSE joy_msg.axes[axis_map[fieldname] + 1]

\* ------------------------------------------------- joy_msg->buttons[i]
\* std::vector::operator[] does no bounds check: an index outside the
\* array is undefined behaviour, which reads as true, reads as false or
\* ends the process
ButtonInRange(joy_msg, idx) == idx >= 0 /\ idx < Len(joy_msg.buttons)

\* the button at idx exists in the frame and is pressed
Held(joy_msg, idx) == ButtonInRange(joy_msg, idx) /\ joy_msg.buttons[idx + 1]

\* the frame holds the enable button and an adjustment button
ScalingFrame(joy_msg) ==
    /\ Held(joy_msg, enable_mov)
    /\ Held(joy_msg, increment_vel) \/ Held(joy_msg, decrement_vel)

ButtonRead(joy_msg, idx) ==
    IF ButtonInRange(joy_msg, idx)
    THEN {IF joy_msg.buttons[idx + 1] THEN "true" ELSE "false"}
    ELSE {"true", "false", "crash"}

\* ------------------------------------------------------ ModifyVelocity
Incremented(scale, maxv) == StdMin(RMul(scale, ScaleFactor), maxv)
Decremented(scale) == StdMax(RDiv(scale, ScaleFactor), min_vel)

\* inc, dec: what buttons[increment_vel] and buttons[decrement_vel] read
ModifiedScale(inc, dec, scale, maxv) ==
    IF inc THEN Incremented(scale, maxv)
    ELSE IF dec THEN Decremented(scale)
    ELSE scale

\* ModifyVelocity that also stops the platform while the scale changes
ModifyVelocityStops(inc, dec) ==
    /\ mov_vel' = ModifiedScale(inc, dec, mov_vel, max_vel)
    /\ sinceAdj' = 0
    /\ pc' = "sleeping"
    /\ sleepLeft' = reaction_t
    /\ branch' = "scale"
    /\ nPub' = 0
    /\ cmd_vel_msg' = ZeroTwist
    /\ UNCHANGED lastPub

\* ModifyVelocity up to its sleep: the scale is assigned, then the
\* callback thread sleeps reaction_t; joyCallback has not published yet
ModifyVelocity(inc, dec) ==
    /\ mov_vel' = ModifiedScale(inc, dec, mov_vel, max_vel)
    /\ sinceAdj' = 0
    /\ pc' = "sleeping"
    /\ sleepLeft' = reaction_t
    /\ branch' = "scale"
    /\ nPub' = 0
    /\ UNCHANGED <<cmd_vel_msg, lastPub>>

\* --------------------------------------------------------- joyCallback
MotionTwist(joy_msg, scale) ==
    [x |-> RMul(scale, getVal(joy_msg, axis_position_map, "x")),
     y |-> RMul(scale, getVal(joy_msg, axis_position_map, "y")),
     z |-> RMul(scale, getVal(joy_msg, axis_orientation_map, "z"))]

\* cmd_vel_pub.publish(cmd_vel_msg) with cmd_vel_msg set to twist; done
\* counts the publish calls this run of joyCallback made before
Publish(twist, done) ==
    /\ cmd_vel_msg' = twist
    /\ lastPub' = twist
    /\ nPub' = done + 1

\* the out-of-range read ended the process
Crash ==
    /\ pc' = "crashed"
    /\ nPub' = 0
    /\ branch' = "none"
    /\ UNCHANGED <<mov_vel, cmd_vel_msg, sleepLeft, lastPub, sinceAdj>>

MotionBranch(joy_msg) ==
    /\ Publish(MotionTwist(joy_msg, mov_vel), 0)
    /\ branch' = "motion"
    /\ UNCHANGED <<mov_vel, pc, sleepLeft, sinceAdj>>

\* StopBranch without lines 152-154: the message is published as it is
StopBranchKeepsCommand ==
    /\ Publish(cmd_vel_msg, 0)
    /\ branch' = "stop"
    /\ UNCHANGED <<mov_vel, pc, sleepLeft, sinceAdj>>

StopBranch ==
    /\ Publish(ZeroTwist, 0)
    /\ branch' = "stop"
    /\ UNCHANGED <<mov_vel, pc, sleepLeft, sinceAdj>>

\* joyCallback from its entry to its return, or to the sleep in
\* ModifyVelocity.  buttons[increment_vel] and buttons[decrement_vel] are
\* read again inside ModifyVelocity; nothing writes the frame in between,
\* so the second read of an element returns what the first returned.
joyCallback(joy_msg) ==
    \E en \in ButtonRead(joy_msg, enable_mov) :
        \/ en = "crash" /\ Crash
        \/ en = "false" /\ StopBranch
        \/ /\ en = "true"
           /\ \E inc \in ButtonRead(joy_msg, increment_vel) :
                \/ inc = "crash" /\ Crash
                \/ inc = "true" /\ ModifyVelocity(TRUE, FALSE)
                \/ /\ inc = "false"
                   /\ \E dec \in ButtonRead(joy_msg, decrement_vel) :
                        \/ dec = "crash" /\ Crash
                        \/ dec = "true" /\ ModifyVelocity(FALSE, TRUE)
                        \/ dec = "false" /\ MotionBranch(joy_msg)

\* ------------------------------------------------------------ actions
\* the constructor: parameters are read once, mov_vel = 0.5
Init ==
    /\ \E i \in DOMAIN ButtonConfigs, j \in DOMAIN MaxVelChoices,
          k \in DOMAIN PositionMaps, l \in DOMAIN OrientationMaps :
          \* enable_mov = -1 is taken with the first max_vel and maps only
          /\ ButtonConfigs[i][1] < 0 => (j = 1 /\ k = 1 /\ l = 1)
          /\ enable_mov = ButtonConfigs[i][1]
          /\ increment_vel = ButtonConfigs[i][2]
          /\ decrement_vel = ButtonConfigs[i][3]
          /\ max_vel = MaxVelChoices[j]
          /\ axis_position_map = PositionMaps[k]
          /\ axis_orientation_map = OrientationMaps[l]
    /\ mov_vel = InitialScale
    /\ cmd_vel_msg = ZeroTwist
    /\ pc = "idle"
    /\ sleepLeft = 0
    /\ queue = 0
    /\ early = FALSE
    /\ lost = FALSE
    /\ lastPub = NoTwist
    /\ nPub = 0
    /\ branch = "none"
    /\ sinceAdj = -1
    /\ frameScaling = FALSE

\* a frame arrives on "joy": it waits in the subscription queue, whose
\* size is 1, so a frame already waiting is pushed out.  The callback
\* thread takes a waiting frame as soon as it is idle and returns from
\* its sleep as soon as the sleep is over, so a frame only finds the queue
\* occupied, or the thread busy, while the sleep of ModifyVelocity lasts.
Arrive ==
    /\ \/ pc = "idle" /\ queue = 0
       \/ pc = "sleeping" /\ sleepLeft > 0
    /\ queue' = 1
    /\ early' = (pc = "sleeping")
    /\ lost' = (lost \/ queue = 1)
    /\ UNCHANGED <<config, mov_vel, cmd_vel_msg, pc, sleepLeft, lastPub,
                   nPub, branch, sinceAdj, frameScaling>>

\* the callback thread takes the waiting frame and runs joyCallback
Dispatch(joy_msg) ==
    /\ pc = "idle"
    /\ queue = 1
    /\ queue' = 0
    /\ early' = FALSE
    /\ joyCallback(joy_msg)
    /\ frameScaling' = ScalingFrame(joy_msg)
    /\ UNCHANGED <<config, lost>>

\* 0.1 s pass while the callback thread sleeps
Tick ==
    /\ pc = "sleeping"
    /\ sleepLeft > 0
    /\ sleepLeft' = sleepLeft - 1
    /\ sinceAdj' = IF sinceAdj < reaction_t THEN sinceAdj + 1 ELSE sinceAdj
    /\ UNCHANGED <<config, mov_vel, cmd_vel_msg, pc, queue, early, lost,
                   lastPub, nPub, branch, frameScaling>>

\* the sleep is over: ModifyVelocity returns and joyCallback publishes
\* cmd_vel_msg, which the scaling branch left as it was
Wake ==
    /\ pc = "sleeping"
    /\ sleepLeft = 0
    /\ Publish(cmd_vel_msg, nPub)
    /\ pc' = "idle"
    /\ lost' = FALSE
    /\ UNCHANGED <<config, mov_vel, sleepLeft, queue, early, branch, sinceAdj,
                   frameScaling>>

Next ==
    \/ Arrive
    \/ \E joy_msg \in Frames : Dispatch(joy_msg)
    \/ Tick
    \/ Wake

Spec == Init /\ [][Next]_vars

\* ------------------------------------------------------------- claims
\* The statements below are written in the specification's terms: a
\* button is held when its index lies inside the frame's buttons and the
\* button is true, whatever the unchecked read of the code returns.

\* the deadman gate of the specification
GateOpen(f) == Held(f, enable_mov)
\* the frame asks for a scale adjustment
AdjustmentHeld(f) == Held(f, increment_vel) \/ Held(f, decrement_vel)

\* resolveAxis of the specification
resolveAxis(axes, mapping, axisName) ==
    IF axisName \in DOMAIN mapping /\ mapping[axisName] \in 0..(Len(axes) - 1)
    THEN axes[mapping[axisName] + 1]
    ELSE RZero

\* the motion command of the specification
SpecTwist(f, scale) ==
    [x |-> RMul(scale, resolveAxis(f.axes, axis_position_map, "x")),
     y |-> RMul(scale, resolveAxis(f.axes, axis_position_map, "y")),
     z |-> RMul(scale, resolveAxis(f.axes, axis_orientation_map, "z"))]

\* C1: a command published by the callback run of a frame whose gate is
\* closed is (0,0,0), whatever the axes and the other buttons read.
C1_GateClosedEmitsZero ==
    [][\A f \in Frames :
          (~GateOpen(f) /\ Dispatch(f) /\ nPub' = 1) => lastPub' = ZeroTwist]_vars

\* C2: once an adjustment has been applied, minScale <= currentScale <=
\* maxScale, in every configuration with maxScale >= minScale.
C2_ScaleWithinBounds ==
    (sinceAdj # -1 /\ RLeq(min_vel, max_vel))
    => (RLeq(min_vel, mov_vel) /\ RLeq(mov_vel, max_vel))

\* C3: the scale changes only when a full cooldown has passed since the
\* last applied adjustment (or none was applied), and a frame with the
\* gate open and an adjustment button held that arrives with the cooldown
\* over is applied.
C3_CooldownSpacingAndApply ==
    [][/\ mov_vel' # mov_vel => sinceAdj \in {-1, reaction_t}
       /\ \A f \in Frames :
            (~early /\ GateOpen(f) /\ AdjustmentHeld(f) /\ Dispatch(f))
            => (branch' = "scale" /\ sinceAdj' = 0)]_vars

\* C4: processing is never suspended: no frame waits in the queue while
\* the callback sleeps out the cooldown, and no delivered frame is lost.
C4_NeverSuspended ==
    /\ pc = "sleeping" => queue = 0
    /\ ~lost

\* C5: every frame taken is processed to completion and its callback run
\* publishes exactly one command.
C5_OneCommandPerFrame ==
    /\ pc # "crashed"
    /\ nPub <= 1
    /\ (pc = "idle" /\ branch # "none") => nPub = 1

\* C6: an adjustment request that arrived before the cooldown was over is
\* dropped: the scale is not changed by it, then or later.
C6_EarlyRequestDropped ==
    [][\A f \in Frames :
          (early /\ GateOpen(f) /\ AdjustmentHeld(f) /\ Dispatch(f))
          => mov_vel' = mov_vel]_vars

\* C7: a frame with the gate open and no adjustment button held is
\* answered with currentScale * resolveAxis on x, y and z, computed from
\* this frame's axes.
C7_MotionCommand ==
    [][\A f \in Frames :
          (GateOpen(f) /\ ~AdjustmentHeld(f) /\ Dispatch(f) /\ pc' # "crashed")
          => (nPub' = 1 /\ lastPub' = SpecTwist(f, mov_vel))]_vars

\* C8: while the frame processed last is one with the gate open and an
\* adjustment button held, the published command stays what it was: the
\* command published for that frame is the one published for the frame
\* before it (the zero command of the fresh message when there was none).
C8_ScalingFrameRepeatsCommand ==
    [][frameScaling'
       => /\ cmd_vel_msg' = cmd_vel_msg
          /\ lastPub' = lastPub \/ (lastPub = NoTwist /\ lastPub' = ZeroTwist)
          /\ pc' = "idle" => (branch' = "scale" /\ nPub' = 1)]_vars

\* C8 witness: the command of a scaling frame has been published after a
\* motion command, under a scale that the frame changed.
C8_Witness ==
    /\ frameScaling
    /\ pc = "idle"
    /\ branch = "scale"
    /\ nPub = 1
    /\ lastPub # NoTwist
    /\ lastPub # ZeroTwist
    /\ mov_vel # InitialScale

\* C9: getVal is resolveAxis: 0.0 for a name the mapping lacks or an
\* index that is no position of the axes, else the axis value itself; and
\* an axis the mapping leaves out is 0.0 in every motion command.
C9_ResolveAxis ==
    /\ \A axes \in AxesSeqs :
         \A m \in {axis_position_map, axis_orientation_map} :
           \A n \in {"x", "y", "z"} :
             getVal([buttons |-> <<>>, axes |-> axes], m, n)
               = resolveAxis(axes, m, n)
    /\ (branch = "motion" /\ "x" \notin DOMAIN axis_position_map)
       => cmd_vel_msg.x = RZero
    /\ (branch = "motion" /\ "y" \notin DOMAIN axis_position_map)
       => cmd_vel_msg.y = RZero
    /\ (branch = "motion" /\ "z" \notin DOMAIN axis_orientation_map)
       => cmd_vel_msg.z = RZero

\* C9 witness: a motion command whose y is left out of the mapping and
\* whose z was read from the frame.
C9_Witness ==
    /\ branch = "motion"
    /\ "y" \notin DOMAIN axis_position_map
    /\ cmd_vel_msg.y = RZero
    /\ cmd_vel_msg.z # RZero

\* C10: a frame whose enable button is unassigned, outside the buttons or
\* false closes the gate: the callback takes the stop branch, without an
\* error.
C10_GateClosedWithoutError ==
    [][\A f \in Frames :
          (~GateOpen(f) /\ Dispatch(f))
          => (pc' # "crashed" /\ branch' = "stop")]_vars

\* C11: an increment or decrement button that is unassigned (-1) or
\* outside the frame's buttons counts as not pressed: a frame with the
\* gate open and no adjustment button held is a motion frame, it leaves
\* the scale as it is and its callback run ends without an error.
C11_UnassignedAdjustmentDisabled ==
    [][\A f \in Frames :
          (GateOpen(f) /\ ~AdjustmentHeld(f) /\ Dispatch(f))
          => (pc' # "crashed" /\ branch' = "motion" /\ mov_vel' = mov_vel)]_vars

\* C13: no frame is processed by a node whose maxScale is below minScale
\* (construction fails on such a configuration).
C13_ConstructionRequiresBounds ==
    branch # "none" => RLeq(min_vel, max_vel)

\* C14: a frame with the gate closed, or with the gate open and no
\* adjustment button held, leaves the scale and the time of the last
\* adjustment as they are; a frame changes the scale at most once; no step
\* changes max_vel, the button indices or the axis maps.
C14_ScaleChangesOnlyInAdjustment ==
    [][/\ config' = config
       /\ mov_vel' # mov_vel => (queue = 1 /\ queue' = 0)
       /\ \A f \in Frames :
            (~(GateOpen(f) /\ AdjustmentHeld(f)) /\ Dispatch(f))
            => (mov_vel' = mov_vel /\ sinceAdj' = sinceAdj)]_vars

C15_IncrementWinsTie ==
    [][\A f \in Frames :
          (GateOpen(f) /\ Dispatch(f) /\ branch' = "scale")
          => /\ Held(f, increment_vel)
                => mov_vel' = Incremented(mov_vel, max_vel)
             /\ (/\ mov_vel' = Decremented(mov_vel)
                 /\ mov_vel' # Incremented(mov_vel, max_vel))
                => (Held(f, decrement_vel) /\ ~Held(f, increment_vel))]_vars

\* C16: a decrement frame (gate open, decrement held, increment not) that
\* arrives with the cooldown over, at a scale within [minScale, maxScale],
\* is processed without an error and takes the scale to
\* max(scale / 1.2, minScale): never below minScale, strictly down while
\* above minScale (so minScale is reached after finitely many frames), and
\* staying at minScale once there.
C16_DecrementConverges ==
    [][\A f \in Frames :
          (/\ GateOpen(f) /\ Held(f, decrement_vel) /\ ~Held(f, increment_vel)
           /\ ~early
           /\ RLeq(min_vel, mov_vel) /\ RLeq(mov_vel, max_vel)
           /\ Dispatch(f))
          => /\ pc' # "crashed"
             /\ mov_vel' = StdMax(RDiv(mov_vel, ScaleFactor), min_vel)
             /\ RLeq(min_vel, mov_vel')
             /\ RLess(min_vel, mov_vel) => RLess(mov_vel', mov_vel)
             /\ mov_vel = min_vel => mov_vel' = min_vel]_vars

\* |a| for a rational a
RAbs(a) == <<Abs(a[1]), a[2]>>

\* C17: the axis readings are within [-1, 1], and every published command
\* has |x|, |y| and |z| at most maxScale, in every configuration with
\* maxScale >= minScale.
C17_CommandWithinMaxScale ==
    (lastPub # NoTwist /\ RLeq(min_vel, max_vel))
    => /\ RLeq(RAbs(lastPub.x), max_vel)
       /\ RLeq(RAbs(lastPub.y), max_vel)
       /\ RLeq(RAbs(lastPub.z), max_vel)

\* C18: in a configuration whose enable button is unassigned every frame is
\* a gate-closed frame, so once a command has been published for one,
\* every command published after it is (0,0,0), those of frames with an
\* adjustment button held included.
C18_ZeroAfterRelease ==
    [][(/\ enable_mov = -1
        /\ lastPub # NoTwist
        /\ \/ queue = 1 /\ queue' = 0 /\ nPub' = 1
           \/ pc = "sleeping" /\ pc' = "idle")
       => lastPub' = ZeroTwist]_vars

\* C19: with maxScale >= minScale and both adjustment buttons inside the
\* frame, an applied increment never lowers the scale and an applied
\* decrement never raises it, the first adjustment of the initial scale
\* included.
C19_MonotoneAdjustments ==
    [][\A f \in Frames :
          (/\ RLeq(min_vel, max_vel)
           /\ ButtonInRange(f, increment_vel) /\ ButtonInRange(f, decrement_vel)
           /\ GateOpen(f) /\ Dispatch(f) /\ branch' = "scale")
          => /\ Held(f, increment_vel) => RLeq(mov_vel, mov_vel')
             /\ (~Held(f, increment_vel) /\ Held(f, decrement_vel))
                => RLeq(mov_vel', mov_vel)]_vars

====
